---------------------------- MODULE Spec2Model ----------------------------
(***************************************************************************)
(* A model of rust/src/mlil/function.rs: the MediumLevelILFunction wrapper *)
(* (instruction_at, ssa_form, get_var_definitions, the user variable value *)
(* operations, var_refs_from) and the MediumLevelILInstructionList it      *)
(* hands out.                                                              *)
(*                                                                         *)
(* The analysis engine behind the BN... calls is not part of the file.  It *)
(* is modelled by the data each call reads or writes: the current MLIL of  *)
(* the function (layout) and the user variable values keyed by variable,   *)
(* architecture and address (values).  Every operator named BN... states   *)
(* what the engine call of that name is taken to return.                   *)
(***************************************************************************)
EXTENDS Integers, Sequences, FiniteSets, TLC

(***************************************************************************)
(* Bounds and sample values.                                               *)
(***************************************************************************)
\* Longest MLIL instruction stream of the function.
MaxInstrs == 2
\* Most MediumLevelILInstructionList values (a list and its clones) alive at once.
MaxLists == 2

\* Variables of the function, in the engine's enumeration order.
VarSeq == <<"v", "w">>
Vars == {VarSeq[i] : i \in 1..Len(VarSeq)}
NoVar == "novar"

\* Addresses that host instructions (0x1000, 0x1010), in increasing order,
\* and one address past the function that hosts none (0x1020).
AddrSeq == <<4096, 4112>>
CodeAddrs == {AddrSeq[i] : i \in 1..Len(AddrSeq)}
QueryAddrs == CodeAddrs \cup {4128}

\* Option<u64> lengths handed to var_refs_from.
NoLen == -1
Lens == {16, 32}

\* function.arch() and one other architecture; Location.arch may be None.
FnArch == "fnArch"
ArchSeq == <<"fnArch", "otherArch">>
Archs == {ArchSeq[i] : i \in 1..Len(ArchSeq)}
NoArch == "noarch"

\* PossibleValueSet samples, opaque to the wrapper, and the absent fact.
Facts == {"Constant5", "Undetermined"}
NoFact == "unset"

(***************************************************************************)
(* The engine's MLIL of the function.  An instruction has an address and   *)
(* may define a variable; a defining instruction (v = src) owns one        *)
(* operand expression, which the engine numbers before the instruction's   *)
(* own expression, so expression indices run ahead of instruction indices. *)
(***************************************************************************)
Instrs == [addr : CodeAddrs, def : Vars \cup {NoVar}]

\* The functions explored: the instruction at position i sits at the i-th
\* code address, those past the last code address share it.
AddrOf(i) == AddrSeq[IF i <= Len(AddrSeq) THEN i ELSE Len(AddrSeq)]
Layouts ==
    UNION {{L \in [1..n -> Instrs] : \A i \in 1..n : L[i].addr = AddrOf(i)} :
             n \in 0..MaxInstrs}

NumOperands(ins) == IF ins.def # NoVar THEN 1 ELSE 0

\* Number of expressions owned by the instructions at positions 0..i-1.
RECURSIVE ExprsBefore(_, _)
ExprsBefore(L, i) ==
    IF i = 0 THEN 0 ELSE ExprsBefore(L, i - 1) + NumOperands(L[i]) + 1

BNGetMediumLevelILInstructionCount(L) == Len(L)

\* Expression index of the instruction at linear position instr_idx.
BNGetMediumLevelILIndexForInstruction(L, instr_idx) ==
    ExprsBefore(L, instr_idx + 1) - 1

\* Linear position of the instruction that owns expression expr_idx.
ExprOwner(L, expr_idx) ==
    CHOOSE i \in 0..(Len(L) - 1) :
        ExprsBefore(L, i) <= expr_idx /\ expr_idx < ExprsBefore(L, i + 1)

\* Linear position of the first instruction at addr for arch; the
\* instruction count when the address hosts none.
BNMediumLevelILGetInstructionStart(L, arch, addr) ==
    LET at == {i \in 0..(Len(L) - 1) : arch = FnArch /\ L[i + 1].addr = addr}
    IN IF at = {} THEN Len(L)
       ELSE CHOOSE i \in at : \A j \in at : i <= j

\* Linear positions of the instructions that define var, in position order.
BNGetMediumLevelILVariableDefinitions(L, var) ==
    LET pos == [i \in 1..Len(L) |-> i - 1]
    IN SelectSeq(pos, LAMBDA i : L[i + 1].def = var)

\* Variable reference sources of the function: one per defining instruction.
EngineRefs(L) ==
    {[arch |-> FnArch, addr |-> L[i].addr, var |-> L[i].def] :
        i \in {j \in 1..Len(L) : L[j].def # NoVar}}

BNGetMediumLevelILVariableReferencesInRange(L, arch, addr, length) ==
    {r \in EngineRefs(L) :
        r.arch = arch /\ addr <= r.addr /\ r.addr < addr + length}

BNGetMediumLevelILVariableReferencesFrom(L, arch, addr) ==
    {r \in EngineRefs(L) : r.arch = arch /\ r.addr = addr}

(***************************************************************************)
(* The engine's user variable values.                                      *)
(***************************************************************************)
Keys == Vars \X Archs \X CodeAddrs
NoValues == [k \in Keys |-> NoFact]

\* The keys in the engine's enumeration order: variable, architecture, address.
KeyOrder ==
    [n \in 1..(Len(VarSeq) * Len(ArchSeq) * Len(AddrSeq)) |->
        <<VarSeq[((n - 1) \div (Len(ArchSeq) * Len(AddrSeq))) + 1],
          ArchSeq[(((n - 1) \div Len(AddrSeq)) % Len(ArchSeq)) + 1],
          AddrSeq[((n - 1) % Len(AddrSeq)) + 1]>>]

BNGetAllUserVariableValues(vals) ==
    LET all == [n \in 1..Len(KeyOrder) |->
                  [var |-> KeyOrder[n][1], arch |-> KeyOrder[n][2],
                   address |-> KeyOrder[n][3], value |-> vals[KeyOrder[n]]]]
    IN SelectSeq(all, LAMBDA e : e.value # NoFact)

BNSetUserVariableValue(vals, var, def_site, value) ==
    [vals EXCEPT ![<<var, def_site.arch, def_site.address>>] = value]

BNClearUserVariableValue(vals, var, def_site) ==
    [vals EXCEPT ![<<var, def_site.arch, def_site.address>>] = NoFact]

(***************************************************************************)
(* The wrapper's pure parts.                                               *)
(***************************************************************************)
\* MediumLevelILInstruction::new(function, expr_idx): the instruction value
\* built from an expression index, with the address the engine records for it.
MediumLevelILInstruction(L, expr_idx) ==
    [expr_index |-> expr_idx, address |-> L[ExprOwner(L, expr_idx) + 1].addr]

NoInstruction == [expr_index |-> -1, address |-> -1]

instruction_count(L) == BNGetMediumLevelILInstructionCount(L)

instruction_from_instruction_idx(L, instr_idx) ==
    MediumLevelILInstruction(L, BNGetMediumLevelILIndexForInstruction(L, instr_idx))

\* loc.arch.unwrap() panics on None; otherwise the engine's start position
\* is compared with instruction_count() and handed to
\* MediumLevelILInstruction::new as an expression index.
instruction_at(L, loc) ==
    IF loc.arch = NoArch THEN [res |-> "panic", insn |-> NoInstruction]
    ELSE LET expr_idx == BNMediumLevelILGetInstructionStart(L, loc.arch, loc.addr)
         IN IF expr_idx >= instruction_count(L)
            THEN [res |-> "None", insn |-> NoInstruction]
            ELSE [res |-> "Some", insn |-> MediumLevelILInstruction(L, expr_idx)]

get_var_definitions(L, var) == BNGetMediumLevelILVariableDefinitions(L, var)

\* get_var_definitions(var).find(|def| def.address == addr) found a site.
FindDefinition(L, var, addr) ==
    \E n \in 1..Len(get_var_definitions(L, var)) :
        instruction_from_instruction_idx(L, get_var_definitions(L, var)[n]).address = addr

user_var_values(vals) == BNGetAllUserVariableValues(vals)

\* A var_refs_from that queries under the function's architecture whatever
\* architecture it is given.
var_refs_from_own_arch(L, addr, length, arch) ==
    IF length # NoLen
    THEN BNGetMediumLevelILVariableReferencesInRange(L, FnArch, addr, length)
    ELSE BNGetMediumLevelILVariableReferencesFrom(L, FnArch, addr)

var_refs_from(L, addr, length, arch) ==
    LET a == IF arch = NoArch THEN FnArch ELSE arch
    IN IF length # NoLen
       THEN BNGetMediumLevelILVariableReferencesInRange(L, a, addr, length)
       ELSE BNGetMediumLevelILVariableReferencesFrom(L, a, addr)

\* A set_user_var_value without the definition site check.
set_user_var_value_unchecked(L, vals, var, addr, value) ==
    [res |-> "Ok",
     values |-> BNSetUserVariableValue(vals, var,
                   [arch |-> FnArch, address |-> addr], value),
     writes |-> 1]

\* A set_user_var_value that leaves a fact already recorded at the site alone.
set_user_var_value_keep_first(L, vals, var, addr, value) ==
    IF ~FindDefinition(L, var, addr)
    THEN [res |-> "Err", values |-> vals, writes |-> 0]
    ELSE IF vals[<<var, FnArch, addr>>] # NoFact
    THEN [res |-> "Ok", values |-> vals, writes |-> 0]
    ELSE [res |-> "Ok",
          values |-> BNSetUserVariableValue(vals, var,
                        [arch |-> FnArch, address |-> addr], value),
          writes |-> 1]

\* The result of set_user_var_value: Err before any engine call when the
\* address is no definition site, else one BNSetUserVariableValue under
\* function.arch().
set_user_var_value(L, vals, var, addr, value) ==
    IF ~FindDefinition(L, var, addr)
    THEN [res |-> "Err", values |-> vals, writes |-> 0]
    ELSE [res |-> "Ok",
          values |-> BNSetUserVariableValue(vals, var,
                        [arch |-> FnArch, address |-> addr], value),
          writes |-> 1]

\* A clear_user_var_value that clears the variable's facts at every address.
clear_user_var_value_all_sites(L, vals, var, addr) ==
    IF ~FindDefinition(L, var, addr)
    THEN [res |-> "Err", values |-> vals, writes |-> 0]
    ELSE [res |-> "Ok",
          values |-> [k \in Keys |-> IF k[1] = var THEN NoFact ELSE vals[k]],
          writes |-> 1]

\* A clear_user_var_value that reports an absent fact as an error.
clear_user_var_value_strict(L, vals, var, addr) ==
    IF ~FindDefinition(L, var, addr) \/ vals[<<var, FnArch, addr>>] = NoFact
    THEN [res |-> "Err", values |-> vals, writes |-> 0]
    ELSE [res |-> "Ok",
          values |-> BNClearUserVariableValue(vals, var,
                        [arch |-> FnArch, address |-> addr]),
          writes |-> 1]

clear_user_var_value(L, vals, var, addr) ==
    IF ~FindDefinition(L, var, addr)
    THEN [res |-> "Err", values |-> vals, writes |-> 0]
    ELSE [res |-> "Ok",
          values |-> BNClearUserVariableValue(vals, var,
                        [arch |-> FnArch, address |-> addr]),
          writes |-> 1]

\* The loop of clear_user_var_values over the enumeration taken at entry:
\* each fact is cleared by variable and address; the first Err ends the loop.
RECURSIVE ClearEach(_, _, _, _, _)
ClearEach(L, vals, all, n, writes) ==
    IF n > Len(all) THEN [res |-> "Ok", values |-> vals, writes |-> writes]
    ELSE LET r == clear_user_var_value(L, vals, all[n].var, all[n].address)
         IN IF r.res = "Err"
            THEN [res |-> "Err", values |-> vals, writes |-> writes]
            ELSE ClearEach(L, r.values, all, n + 1, writes + r.writes)

\* A clear_user_var_values that goes on past a failed clear and reports it
\* at the end.
RECURSIVE ClearEachSkipping(_, _, _, _, _, _)
ClearEachSkipping(L, vals, all, n, writes, res) ==
    IF n > Len(all) THEN [res |-> res, values |-> vals, writes |-> writes]
    ELSE LET r == clear_user_var_value(L, vals, all[n].var, all[n].address)
         IN ClearEachSkipping(L, r.values, all, n + 1, writes + r.writes,
                              IF r.res = "Err" THEN "Err" ELSE res)

clear_user_var_values_skipping(L, vals) ==
    ClearEachSkipping(L, vals, user_var_values(vals), 1, 0, "Ok")

clear_user_var_values(L, vals) == ClearEach(L, vals, user_var_values(vals), 1, 0)


(***************************************************************************)
(* SSA form.  The engine links one SSA function object to the analysed     *)
(* MLIL and replaces it when the function is reanalysed; the wrapper       *)
(* returns whatever object the engine hands back.                          *)
(***************************************************************************)
BNGetMediumLevelILSSAForm(L) == [ssa_of |-> L, derived |-> 0]

NoHandle == [ssa_of |-> <<>>, derived |-> -1]

(***************************************************************************)
(* State.                                                                  *)
(***************************************************************************)
VARIABLES
    layout,     \* the engine's current MLIL of the function
    values,     \* the engine's user variable values
    last,       \* the most recent call: its arguments and what it returned
    arrays,     \* the engine arrays handed to get_var_definitions callers
    lists,      \* the MediumLevelILInstructionList values alive
    staleRead   \* whether some list read its array after the array was freed

vars == <<layout, values, last, arrays, lists, staleRead>>
listVars == <<arrays, lists, staleRead>>

NoCall ==
    [op |-> "none", var |-> NoVar, addr |-> 0, value |-> NoFact,
     arch |-> NoArch, length |-> NoLen, res |-> "none", writes |-> 0,
     before |-> NoValues, second |-> FALSE, insn |-> NoInstruction,
     sites |-> <<>>, refs |-> {}, handle |-> NoHandle, earlier |-> NoHandle]

\* An ssa_form that derives a new SSA object on every call.
ssa_form_rederived(L) ==
    [ssa_of |-> L,
     derived |-> IF last.op = "ssa_form" THEN last.handle.derived + 1 ELSE 1]

ssa_form(L) == BNGetMediumLevelILSSAForm(L)

Init ==
    /\ layout \in Layouts
    /\ values = NoValues
    /\ last = NoCall
    /\ arrays = <<>>
    /\ lists = <<>>
    /\ staleRead = FALSE

\* The owner function is reanalysed: the MLIL changes, the user variable
\* values stay.  One step appends an instruction, drops the last one or
\* rewrites one; any MLIL is reached by a run of such steps.
Reanalyze ==
    /\ \/ /\ Len(layout) < MaxInstrs
          /\ \E d \in Vars \cup {NoVar} :
               layout' = Append(layout, [addr |-> AddrOf(Len(layout) + 1), def |-> d])
       \/ /\ Len(layout) > 0
          /\ layout' = SubSeq(layout, 1, Len(layout) - 1)
       \/ \E i \in 1..Len(layout), d \in Vars \cup {NoVar} :
             /\ d # layout[i].def
             /\ layout' = [layout EXCEPT ![i].def = d]
    /\ last' = [NoCall EXCEPT !.op = "reanalyze"]
    /\ UNCHANGED <<values, listVars>>

SetUserVarValue ==
    \E var \in Vars, addr \in CodeAddrs, value \in Facts :
        LET r == set_user_var_value(layout, values, var, addr, value)
        IN /\ values' = r.values
           /\ last' = [NoCall EXCEPT !.op = "set_user_var_value", !.var = var,
                          !.addr = addr, !.value = value, !.res = r.res,
                          !.writes = r.writes, !.before = values]
           /\ UNCHANGED <<layout, listVars>>

\* second: the call repeats, right after it, a clear_user_var_value of the
\* same variable and address that returned Ok and removed a fact.
ClearUserVarValue ==
    \E var \in Vars, addr \in CodeAddrs :
        LET r == clear_user_var_value(layout, values, var, addr)
        IN /\ values' = r.values
           /\ last' = [NoCall EXCEPT !.op = "clear_user_var_value", !.var = var,
                          !.addr = addr, !.res = r.res,
                          !.writes = r.writes, !.before = values,
                          !.second = /\ last.op = "clear_user_var_value"
                                     /\ last.res = "Ok"
                                     /\ last.var = var
                                     /\ last.addr = addr
                                     /\ last.before[<<var, FnArch, addr>>] # NoFact]
           /\ UNCHANGED <<layout, listVars>>

ClearUserVarValues ==
    LET r == clear_user_var_values(layout, values)
    IN /\ values' = r.values
       /\ last' = [NoCall EXCEPT !.op = "clear_user_var_values", !.res = r.res,
                      !.writes = r.writes, !.before = values]
       /\ UNCHANGED <<layout, listVars>>

UserVarValues ==
    /\ last' = [NoCall EXCEPT !.op = "user_var_values", !.res = "Ok",
                   !.before = values]
    /\ UNCHANGED <<layout, values, listVars>>

\* get_var_definitions(var) read to its end and dropped: the addresses of
\* the instructions it yields.
VarDefinitionSites ==
    \E var \in Vars :
        /\ last' = [NoCall EXCEPT !.op = "get_var_definitions", !.var = var,
                       !.res = "Ok", !.before = values,
                       !.sites = [n \in 1..Len(get_var_definitions(layout, var)) |->
                                    instruction_from_instruction_idx(layout,
                                        get_var_definitions(layout, var)[n]).address]]
        /\ UNCHANGED <<layout, values, listVars>>

\* earlier: the handle the call right before returned, when that call was
\* ssa_form too.
SsaForm ==
    /\ last' = [NoCall EXCEPT !.op = "ssa_form", !.res = "Ok", !.before = values,
                   !.handle = ssa_form(layout),
                   !.earlier = IF last.op = "ssa_form" THEN last.handle ELSE NoHandle]
    /\ UNCHANGED <<layout, values, listVars>>

InstructionAt ==
    \E addr \in QueryAddrs, arch \in Archs \cup {NoArch} :
        LET r == instruction_at(layout, [arch |-> arch, addr |-> addr])
        IN /\ last' = [NoCall EXCEPT !.op = "instruction_at", !.addr = addr,
                          !.arch = arch, !.res = r.res, !.insn = r.insn,
                          !.before = values]
           /\ UNCHANGED <<layout, values, listVars>>

VarRefsFrom ==
    \E addr \in QueryAddrs, length \in Lens \cup {NoLen}, arch \in Archs \cup {NoArch} :
        /\ last' = [NoCall EXCEPT !.op = "var_refs_from", !.addr = addr,
                       !.length = length, !.arch = arch, !.res = "Ok",
                       !.refs = var_refs_from(layout, addr, length, arch),
                       !.before = values]
        /\ UNCHANGED <<layout, values, listVars>>

\* The user variable value operations, with the reads the annotator rests on.
Next ==
    \/ Reanalyze
    \/ SetUserVarValue
    \/ ClearUserVarValue
    \/ ClearUserVarValues
    \/ UserVarValues
    \/ VarDefinitionSites
    \/ SsaForm

Spec == Init /\ [][Next]_vars

\* The address and range queries over a function that is reanalysed.
NextIndex ==
    \/ Reanalyze
    \/ InstructionAt
    \/ VarRefsFrom

SpecIndex == Init /\ [][NextIndex]_vars

(***************************************************************************)
(* MediumLevelILInstructionList: a raw pointer to the engine's array and a *)
(* slice iterator over it, here the positions [front, back) still to read. *)
(* Clone is derived, so a clone copies the pointer; Drop frees the pointer.*)
(***************************************************************************)
\* A second BNFreeILInstructionList of one array is undefined behaviour:
\* nothing is modelled past it.
Corrupted == \E p \in 1..Len(arrays) : arrays[p].frees > 1

RemoveAt(s, i) == SubSeq(s, 1, i - 1) \o SubSeq(s, i + 1, Len(s))

\* What reading position n of the array behind list l yields: the stored
\* instruction index, or anything at all once the array was freed (-1
\* stands for a value that is no instruction index of the function).
ArrayRead(l, n) ==
    IF arrays[l.ptr].frees = 0 THEN {arrays[l.ptr].instrs[n + 1]}
    ELSE (0..(Len(layout) - 1)) \cup {-1}

ItemOf(instr_idx) ==
    IF instr_idx \in 0..(Len(layout) - 1)
    THEN instruction_from_instruction_idx(layout, instr_idx)
    ELSE NoInstruction

GetVarDefinitions ==
    /\ ~Corrupted
    /\ Len(lists) < MaxLists
    /\ Len(arrays) < MaxLists
    /\ \E var \in Vars :
         /\ arrays' = Append(arrays, [instrs |-> get_var_definitions(layout, var),
                                      frees |-> 0])
         /\ lists' = Append(lists, [ptr |-> Len(arrays) + 1, front |-> 0,
                                    back |-> Len(get_var_definitions(layout, var))])
         /\ last' = [NoCall EXCEPT !.op = "get_var_definitions", !.var = var,
                        !.res = "Ok"]
    /\ UNCHANGED <<layout, values, staleRead>>

ListNext ==
    /\ ~Corrupted
    /\ \E i \in 1..Len(lists) :
         LET l == lists[i]
         IN IF l.front = l.back
            THEN /\ last' = [NoCall EXCEPT !.op = "next", !.res = "None"]
                 /\ UNCHANGED <<lists, staleRead>>
            ELSE /\ \E x \in ArrayRead(l, l.front) :
                      last' = [NoCall EXCEPT !.op = "next", !.res = "Some",
                                  !.insn = ItemOf(x)]
                 /\ lists' = [lists EXCEPT ![i].front = l.front + 1]
                 /\ staleRead' = (staleRead \/ arrays[l.ptr].frees > 0)
    /\ UNCHANGED <<layout, values, arrays>>

ListNextBack ==
    /\ ~Corrupted
    /\ \E i \in 1..Len(lists) :
         LET l == lists[i]
         IN IF l.front = l.back
            THEN /\ last' = [NoCall EXCEPT !.op = "next_back", !.res = "None"]
                 /\ UNCHANGED <<lists, staleRead>>
            ELSE /\ \E x \in ArrayRead(l, l.back - 1) :
                      last' = [NoCall EXCEPT !.op = "next_back", !.res = "Some",
                                  !.insn = ItemOf(x)]
                 /\ lists' = [lists EXCEPT ![i].back = l.back - 1]
                 /\ staleRead' = (staleRead \/ arrays[l.ptr].frees > 0)
    /\ UNCHANGED <<layout, values, arrays>>

ListClone ==
    /\ ~Corrupted
    /\ Len(lists) < MaxLists
    /\ \E i \in 1..Len(lists) : lists' = Append(lists, lists[i])
    /\ last' = [NoCall EXCEPT !.op = "clone"]
    /\ UNCHANGED <<layout, values, arrays, staleRead>>

ListDrop ==
    /\ ~Corrupted
    /\ \E i \in 1..Len(lists) :
         /\ arrays' = [arrays EXCEPT ![lists[i].ptr].frees = @ + 1]
         /\ lists' = RemoveAt(lists, i)
    /\ last' = [NoCall EXCEPT !.op = "drop"]
    /\ UNCHANGED <<layout, values, staleRead>>

\* The lists handed out over one analysed function, and their clones.
NextList ==
    \/ GetVarDefinitions
    \/ ListNext
    \/ ListNextBack
    \/ ListClone
    \/ ListDrop

SpecList == Init /\ [][NextList]_vars

(***************************************************************************)
(* The properties.                                                         *)
(***************************************************************************)
\* addr is the address of an instruction that defines var.
IsDefinitionSite(L, var, addr) ==
    \E i \in 1..Len(L) : L[i].def = var /\ L[i].addr = addr

\* The entries user_var_values() lists for var at addr.
Listed(vals, var, addr) ==
    {n \in 1..Len(user_var_values(vals)) :
        /\ user_var_values(vals)[n].var = var
        /\ user_var_values(vals)[n].address = addr}

OthersUnchanged ==
    \A k \in Keys \ {<<last.var, FnArch, last.addr>>} : values[k] = last.before[k]

\* C1: set_user_var_value and clear_user_var_value at an address that is no
\* definition site of the variable return Err, and user_var_values() lists
\* afterwards exactly what it listed before the call.
C1_NonSiteRejectedUnchanged ==
    (/\ last.op \in {"set_user_var_value", "clear_user_var_value"}
     /\ ~IsDefinitionSite(layout, last.var, last.addr))
    => (/\ last.res = "Err"
        /\ user_var_values(values) = user_var_values(last.before))

\* A clear at an address that stopped being a definition site while a fact
\* is still recorded there.
C1_Witness ==
    /\ last.op = "clear_user_var_value"
    /\ ~IsDefinitionSite(layout, last.var, last.addr)
    /\ last.before[<<last.var, FnArch, last.addr>>] # NoFact
    /\ last.res = "Err"

\* C2: after a set_user_var_value that returned Ok, user_var_values() lists
\* one entry for the variable and site and it holds the fact given; after a
\* clear_user_var_value that returned Ok it lists none; the facts of every
\* other variable and site are as before the call.
C2_SetListedClearRemoved ==
    /\ (last.op = "set_user_var_value" /\ last.res = "Ok")
       => (/\ Cardinality(Listed(values, last.var, last.addr)) = 1
           /\ \A n \in Listed(values, last.var, last.addr) :
                 user_var_values(values)[n].value = last.value
           /\ OthersUnchanged)
    /\ (last.op = "clear_user_var_value" /\ last.res = "Ok")
       => (/\ Listed(values, last.var, last.addr) = {}
           /\ OthersUnchanged)

\* A clear that removed a fact while another fact was recorded.
C2_Witness ==
    /\ last.op = "clear_user_var_value"
    /\ last.res = "Ok"
    /\ Listed(last.before, last.var, last.addr) # {}
    /\ Len(user_var_values(values)) > 0

\* C3: after clear_user_var_values, whatever facts were recorded and
\* whatever reanalysis happened before, user_var_values() lists nothing.
C3_ClearAllLeavesNothing ==
    last.op = "clear_user_var_values" => user_var_values(values) = <<>>

\* C4 as claimed: a clear_user_var_value repeated right after one that
\* returned Ok and removed the fact returns Err and changes nothing.
C4_SecondClearFails ==
    (last.op = "clear_user_var_value" /\ last.second)
    => (last.res = "Err" /\ user_var_values(values) = user_var_values(last.before))

\* C4 as amended: a clear_user_var_value repeated right after one that
\* returned Ok and removed the fact returns Ok again, in every run, and
\* user_var_values() lists what it listed before the second call.
C4_SecondClearSucceeds ==
    (last.op = "clear_user_var_value" /\ last.second)
    => (last.res = "Ok" /\ user_var_values(values) = user_var_values(last.before))

\* The second clear has returned; the address is still a definition site.
C4_Witness ==
    /\ last.op = "clear_user_var_value"
    /\ last.second
    /\ IsDefinitionSite(layout, last.var, last.addr)
    /\ last.before[<<last.var, FnArch, last.addr>>] = NoFact

\* C5: instruction_at with an architecture returns None exactly when the
\* engine's start position for the address is at or past
\* instruction_count(); otherwise it returns the instruction at that linear
\* position, whose address is the address asked for.
C5_InstructionAtStartPosition ==
    (last.op = "instruction_at" /\ last.arch # NoArch)
    => LET start == BNMediumLevelILGetInstructionStart(layout, last.arch, last.addr)
       IN IF start >= instruction_count(layout)
          THEN last.res = "None"
          ELSE /\ last.res = "Some"
               /\ last.insn.expr_index =
                      BNGetMediumLevelILIndexForInstruction(layout, start)
               /\ last.insn.address = last.addr

QueryArch == IF last.arch = NoArch THEN FnArch ELSE last.arch

\* C7 as claimed: var_refs_from returns the references of the queried
\* architecture in [addr, addr + length) when a length is given and those
\* of the whole function when none is.
C7_RefsWholeFunctionWithoutLength ==
    last.op = "var_refs_from"
    => last.refs =
         {r \in EngineRefs(layout) :
            /\ r.arch = QueryArch
            /\ last.length # NoLen
                 => (last.addr <= r.addr /\ r.addr < last.addr + last.length)}

\* C7 as amended: var_refs_from returns the references of the queried
\* architecture in [addr, addr + length) when a length is given and those
\* at addr itself when none is; the queried architecture is the one given,
\* the function's own when none is given.
C7_RefsAtAddressWithoutLength ==
    last.op = "var_refs_from"
    => last.refs =
         {r \in EngineRefs(layout) :
            /\ r.arch = QueryArch
            /\ IF last.length # NoLen
               THEN last.addr <= r.addr /\ r.addr < last.addr + last.length
               ELSE r.addr = last.addr}

\* A query without a length that returned a reference and left out another
\* reference of the function.
C7_Witness ==
    /\ last.op = "var_refs_from"
    /\ last.length = NoLen
    /\ last.refs # {}
    /\ last.refs # EngineRefs(layout)

C9_ClearAllStopsAtFirstFailure ==
    last.op = "clear_user_var_values"
    => LET all == user_var_values(last.before)
           bad == {n \in 1..Len(all) :
                     ~IsDefinitionSite(layout, all[n].var, all[n].address)}
           stop == IF bad = {} THEN Len(all) + 1
                   ELSE CHOOSE n \in bad : \A m \in bad : n <= m
           key(n) == <<all[n].var, all[n].arch, all[n].address>>
       IN /\ last.res = (IF bad = {} THEN "Ok" ELSE "Err")
          /\ last.writes = stop - 1
          /\ \A n \in 1..Len(all) :
                values[key(n)] = IF n < stop THEN NoFact ELSE last.before[key(n)]

\* A clear_user_var_values that cleared a fact, failed on the next and left
\* a later one.
C9_Witness ==
    /\ last.op = "clear_user_var_values"
    /\ last.res = "Err"
    /\ last.writes > 0
    /\ Len(user_var_values(values)) > 1

\* C10: no list reads its array after the array was freed, no array is
\* freed twice, and an array whose lists are all dropped was freed once.
C10_ArrayFreedExactlyOnce ==
    /\ ~staleRead
    /\ \A p \in 1..Len(arrays) :
         /\ arrays[p].frees <= 1
         /\ (\A i \in 1..Len(lists) : lists[i].ptr # p) => arrays[p].frees = 1

=============================================================================
